---- MODULE Spec2Model ----
(***************************************************************************)
(* A model of slas (static linear algebra system): the copy-on-write       *)
(* vector StaticCowVec, the backend dispatch of the un-bound dot product,  *)
(* the Native (Rust) SIMD kernels and the Matrix layer over the Library    *)
(* (Blas) backend.                                                         *)
(*                                                                         *)
(* Indices are 0-based as in the source; the sequences that hold vector    *)
(* contents are 1-based, so element i of a vector s is s[i + 1].           *)
(* Element values are integers: the kernels are modelled over exact        *)
(* arithmetic.                                                             *)
(***************************************************************************)
EXTENDS Integers, Sequences, FiniteSets, TLC

VARIABLES
    \* ---- StaticCowVec (src/src/lib.rs) ----
    source,      \* the external region a Borrowed vector points to
    data,        \* StaticCowVec.data, the union {owned, borrowed}
    is_owned,    \* StaticCowVec.is_owned
    prev_owned,  \* is_owned as it was before the last operation
    written,     \* whether a write through the vector has happened
    op,          \* the last operation on the vector (or its constructor)
    ret          \* the element value moved by the last operation

cowVars == <<source, data, is_owned, prev_owned, written, op, ret>>

VARIABLES
    \* ---- Native kernels (src/src/backends/rust.rs) ----
    klen,        \* LEN of the operands
    kw,          \* LANES, the SIMD width of the build
    ka,          \* operand a
    kb,          \* operand b
    kc,          \* the output buffer c
    kop,         \* the last kernel call
    kres         \* the scalar the last dot returned

kernelVars == <<klen, kw, ka, kb, kc, kop, kres>>

VARIABLES
    \* ---- un-bound dot dispatch (src/build.rs, src/src/backends.rs) ----
    denv,        \* SLAS_BLAS_IN_DOT_IF_LEN_GE in the build environment
    dlen,        \* LEN of the operands
    dtype,       \* element type of the operands
    dbackend     \* the backend whose kernel the last un-bound dot executed

dispatchVars == <<denv, dlen, dtype, dbackend>>

VARIABLES
    \* ---- Matrix (src/src/tensor.rs) ----
    ma,          \* the left matrix: shape, data, IS_TRANS
    mb,          \* the right matrix
    molen,       \* OLEN, the length of the output buffer
    mdebug,      \* whether the build has debug assertions
    mop,         \* the last matrix operation
    margs,       \* its arguments
    mres         \* its outcome

matrixVars == <<ma, mb, molen, mdebug, mop, margs, mres>>

VARIABLES
    \* ---- Native transpose kernel (src/src/backends/rust.rs) ----
    tlen,        \* LEN of the buffers
    torig,       \* the contents of a before the first call
    tsrc,        \* the input a of the next call
    tbuffer,     \* the output buffer
    tcolumns,    \* the `columns` arguments of the calls made so far
    top          \* the last call

transposeVars == <<tlen, torig, tsrc, tbuffer, tcolumns, top>>

VARIABLES
    \* ---- Tensor (src/src/tensor.rs, src/src/static_vec.rs) ----
    xvec,        \* the vector a tensor is made of
    xkind,       \* the type of the shape: "array", "tuple" or "MatrixShape"
    xtensor,     \* the tensor: shape (axis 0 first), data, backend
    xsub,        \* the sub-tensor of index_slice: its offset in the parent's data, shape, LEN
    xop,         \* the last call
    xargs,       \* its arguments
    xres         \* its result: [panic, out]

tensorVars == <<xvec, xkind, xtensor, xsub, xop, xargs, xres>>

VARIABLES
    \* ---- SIMD width of a build (src/src/simd_lanes.rs) ----
    bfeatures,   \* the target features of the build
    btype,       \* the element type
    blanes,      \* max_for_type::<T>(), once computed
    bop          \* "target" before, "max_for_type" after

buildVars == <<bfeatures, btype, blanes, bop>>

VARIABLES
    \* ---- static views of dynamic vectors (src/src/dynamic_vec.rs, src/src/lib.rs) ----
    csrc,        \* the elements of the source
    ckind,       \* the type of the source: "[T]", "Vec<T>" or "Box<[T]>"
    cop,         \* the last call
    cargs,       \* its LEN
    cres         \* its result: [panic, out], out the elements of the view

castVars == <<csrc, ckind, cop, cargs, cres>>

vars == <<cowVars, kernelVars, dispatchVars, matrixVars, transposeVars, tensorVars,
          buildVars, castVars>>

\* an area that takes no part in a specification rests in these values
IdleCow ==
    /\ source = <<>> /\ data = <<>> /\ is_owned = FALSE /\ prev_owned = FALSE
    /\ written = FALSE /\ op = "idle" /\ ret = 0

IdleKernel ==
    /\ klen = 0 /\ kw = 0 /\ ka = <<>> /\ kb = <<>> /\ kc = <<>>
    /\ kop = [form |-> "idle", fn |-> "none"] /\ kres = 0

IdleDispatch ==
    /\ denv = [set |-> FALSE, value |-> 0] /\ dlen = 0 /\ dtype = "idle"
    /\ dbackend = "idle"

IdleMatrix ==
    /\ ma = [shape |-> <<>>, data |-> <<>>, backend |-> "none", trans |-> FALSE]
    /\ mb = [shape |-> <<>>, data |-> <<>>, backend |-> "none", trans |-> FALSE]
    /\ molen = 0 /\ mdebug = FALSE
    /\ mop = "idle" /\ margs = <<>> /\ mres = [panic |-> FALSE, out |-> <<>>]

IdleTranspose ==
    /\ tlen = 0 /\ torig = <<>> /\ tsrc = <<>> /\ tbuffer = <<>> /\ tcolumns = <<>>
    /\ top = "idle"

IdleBuild == bfeatures = {} /\ btype = "none" /\ blanes = 0 /\ bop = "idle"

IdleCast ==
    /\ csrc = <<>> /\ ckind = "none" /\ cop = "idle" /\ cargs = <<>>
    /\ cres = [panic |-> FALSE, out |-> <<>>]

IdleTensor ==
    /\ xvec = <<>> /\ xkind = "none"
    /\ xtensor = [shape |-> <<>>, data |-> <<>>, backend |-> "none"]
    /\ xsub = [offset |-> 0, shape |-> <<>>, len |-> 0, backend |-> "none"]
    /\ xop = "idle" /\ xargs = <<>>
    /\ xres = [panic |-> FALSE, out |-> <<>>]

(***************************************************************************)
(* Bounds                                                                  *)
(***************************************************************************)
\* LEN of the StaticCowVec<T, LEN> under test
CowLen == 3

\* the Native kernels run on LEN in 0..MaxKLen
MaxKLen == 5

\* the un-bound dot is called on LEN in 0..MaxDLen and around the default threshold
MaxDLen == 4
\* SLAS_BLAS_IN_DOT_IF_LEN_GE, when set, is in 0..MaxThreshold
MaxThreshold == 3
\* the transpose kernel runs on LEN in 0..MaxTLen
MaxTLen == 6
\* a dynamic vector has 0..MaxCLen elements
MaxCLen == 4
\* a tensor has 1..MaxRank axes of 0..MaxAxis elements over a vector of 0..MaxVLen
MaxRank == 3
MaxAxis == 3
MaxVLen == 27
\* a matrix has 1..MaxDim rows and 1..MaxDim columns
MaxDim == 3

\* build.rs: the threshold when SLAS_BLAS_IN_DOT_IF_LEN_GE is not set
DefaultThreshold == 750

\* the element values a vector or its source holds
Vals == {0, 1}
CowIdx == 0..(CowLen - 1)
CowArrays == [1..CowLen -> Vals]

(***************************************************************************)
(* SIMD width (src/src/simd_lanes.rs).  A target is the set of its         *)
(* target features.                                                        *)
(***************************************************************************)
LANES_8(features) == features \cap {"avx", "avx2", "fma"} # {}

LANES_4(features) ==
    features \cap {"sse", "sse2", "sse3", "ssse3", "sse4.1", "sse4.2", "sse4a"} # {}

LANES_16(features) == "avx512" \in features

\* simd_lanes::MAX
MAX(features) ==
    IF LANES_16(features) THEN 16
    ELSE IF LANES_8(features) THEN 8
    ELSE IF LANES_4(features) THEN 4
    ELSE 0

\* size_of::<T>() in bytes
size_of(type) == IF type = "f32" THEN 4 ELSE 8

\* simd_lanes::max_for_type::<T>()
max_for_type(features, type) == MAX(features) \div (size_of(type) \div size_of("f32"))

(***************************************************************************)
(* Native kernels (src/src/backends/rust.rs): the chunked phase over       *)
(* n in 0..LEN / LANES and the scalar remainder over                       *)
(* LEN - (LEN % LANES)..LEN.  A SIMD value is a function on 0..LANES-1.    *)
(***************************************************************************)
\* Simd::from_slice(v.static_slice_unchecked::<LANES>(i))
SimdFromSlice(v, i, lanes) == [l \in 0..(lanes - 1) |-> v[i + l + 1]]

RECURSIVE ReduceFrom(_, _, _)
ReduceFrom(simd, l, lanes) ==
    IF l >= lanes THEN 0 ELSE simd[l] + ReduceFrom(simd, l + 1, lanes)

\* Simd::reduce_sum
reduce_sum(simd, lanes) == ReduceFrom(simd, 0, lanes)

DotChunkCountOneMore(len, lanes) == len \div lanes + 1

\* the bound of `for n in 0..LEN / LANES`
DotChunkCount(len, lanes) == len \div lanes

DotRemainderStartLate(len, lanes) == len - (len % lanes) + 1

\* the start of `for n in LEN - (LEN % LANES)..LEN`
DotRemainderStart(len, lanes) == len - (len % lanes)

RECURSIVE DotChunks(_, _, _, _, _, _)
\* for n in 0..LEN / LANES { sum += Simd(a[n * LANES..]) * Simd(b[n * LANES..]) }
DotChunks(a, b, lanes, n, count, sum) ==
    IF n >= count THEN sum
    ELSE LET x == SimdFromSlice(a, n * lanes, lanes)
             y == SimdFromSlice(b, n * lanes, lanes)
         IN DotChunks(a, b, lanes, n + 1, count,
                      [l \in 0..(lanes - 1) |-> sum[l] + x[l] * y[l]])

RECURSIVE DotRemainder(_, _, _, _, _)
\* for n in LEN - (LEN % LANES)..LEN { sum += a[n] * b[n] }
DotRemainder(a, b, n, len, sum) ==
    IF n >= len THEN sum
    ELSE DotRemainder(a, b, n + 1, len, sum + a[n + 1] * b[n + 1])

\* impl DotProduct for Rust: Rust.dot(a, b)
RustDot(a, b, len, lanes) ==
    LET zero == [l \in 0..(lanes - 1) |-> 0]
        sum == DotChunks(a, b, lanes, 0, DotChunkCount(len, lanes), zero)
    IN DotRemainder(a, b, DotRemainderStart(len, lanes), len, reduce_sum(sum, lanes))

RECURSIVE BlasDotFrom(_, _, _, _)
BlasDotFrom(a, b, n, len) ==
    IF n >= len THEN 0 ELSE a[n + 1] * b[n + 1] + BlasDotFrom(a, b, n + 1, len)

\* impl DotProduct for Blas: cblas_sdot(LEN, a, 1, b, 1), the sum of a[i] * b[i]
BlasDot(a, b, len) == BlasDotFrom(a, b, 0, len)

\* the scalar operator of a basic op; the operands of the model keep division exact
FloatOp(o, x, y) ==
    CASE o = "add" -> x + y
      [] o = "sub" -> x - y
      [] o = "mul" -> x * y
      [] o = "div" -> x \div y

OpRemainderStartLate(len, lanes) == len - (len % lanes) + 1

\* the start of the remainder loop of a basic op
OpRemainderStart(len, lanes) == len - (len % lanes)

RECURSIVE OpChunks(_, _, _, _, _, _, _)
\* for n in 0..LEN / LANES { *out_ptr.add(n) = Simd(a[n * LANES..]) op Simd(b[n * LANES..]) }
OpChunks(o, a, b, c, lanes, n, count) ==
    IF n >= count THEN c
    ELSE LET x == SimdFromSlice(a, n * lanes, lanes)
             y == SimdFromSlice(b, n * lanes, lanes)
             stored == [i \in 1..Len(c) |->
                            IF i - 1 >= n * lanes /\ i - 1 < n * lanes + lanes
                            THEN FloatOp(o, x[i - 1 - n * lanes], y[i - 1 - n * lanes])
                            ELSE c[i]]
         IN OpChunks(o, a, b, stored, lanes, n + 1, count)

RECURSIVE OpRemainder(_, _, _, _, _, _)
\* for n in LEN - (LEN % LANES)..LEN { *c.get_unchecked_mut(n) = a[n] op b[n] }
OpRemainder(o, a, b, c, n, len) ==
    IF n >= len THEN c
    ELSE OpRemainder(o, a, b, [c EXCEPT ![n + 1] = FloatOp(o, a[n + 1], b[n + 1])],
                     n + 1, len)

\* impl Addition / Subtraction / Multiplication / Divition for Rust: Rust.op(a, b, c)
RustBasicOp(o, a, b, c, len, lanes) ==
    OpRemainder(o, a, b, OpChunks(o, a, b, c, lanes, 0, len \div lanes),
                OpRemainderStart(len, lanes), len)

ChunkAccessOneMore(n, lanes) == {n * lanes + l : l \in 0..lanes}

\* the indexes v.static_slice_unchecked::<LANES>(n * LANES) covers
ChunkAccess(n, lanes) == {n * lanes + l : l \in 0..(lanes - 1)}

\* the indexes a kernel touches: in the chunked phase of `count` chunks, and
\* in the remainder loop from `start` to LEN
KernelAccess(count, start, len, lanes) ==
    [chunks |-> UNION {ChunkAccess(n, lanes) : n \in 0..(count - 1)},
     remainder |-> start..(len - 1)]

\* the accesses of Rust.dot
DotAccess(len, lanes) ==
    KernelAccess(DotChunkCount(len, lanes), DotRemainderStart(len, lanes), len, lanes)

\* the accesses of Rust.add and its siblings
OpAccess(len, lanes) ==
    KernelAccess(len \div lanes, OpRemainderStart(len, lanes), len, lanes)

(***************************************************************************)
(* The Native transpose kernel (impl Transpose for Rust).                  *)
(***************************************************************************)
TransposeRowCountShort(len, columns) == len \div columns - 1

\* the bound of `for row in 0..LEN / columns`
TransposeRowCount(len, columns) == len \div columns

TransposeDstMirrored(len, columns, column, row) == (len \div columns) * column + row

\* the index written: columns * row + column
TransposeDst(len, columns, column, row) == columns * row + column

\* the index read: LEN / columns * column + row
TransposeSrc(len, columns, column, row) == (len \div columns) * column + row

RECURSIVE TransposeRows(_, _, _, _, _, _)
\* for row in 0..LEN / columns { buffer[columns * row + column] = a[LEN / columns * column + row] }
TransposeRows(a, buffer, len, columns, column, row) ==
    IF row >= TransposeRowCount(len, columns) THEN buffer
    ELSE TransposeRows(a,
                       [buffer EXCEPT ![TransposeDst(len, columns, column, row) + 1] =
                                          a[TransposeSrc(len, columns, column, row) + 1]],
                       len, columns, column, row + 1)

RECURSIVE TransposeColumns(_, _, _, _, _)
\* for column in 0..columns { ... }
TransposeColumns(a, buffer, len, columns, column) ==
    IF column >= columns THEN buffer
    ELSE TransposeColumns(a, TransposeRows(a, buffer, len, columns, column, 0),
                          len, columns, column + 1)

\* Rust.transpose(&a, &mut buffer, columns): the buffer afterwards
RustTranspose(a, buffer, columns, len) == TransposeColumns(a, buffer, len, columns, 0)

\* Rust.transpose_inplace(&mut a, columns): a afterwards; the scratch buffer starts zeroed
transpose_inplace(a, columns, len) ==
    RustTranspose(a, [i \in 1..len |-> 0], columns, len)

(***************************************************************************)
(* The build-time threshold (src/build.rs) and the un-bound dot            *)
(* (src/src/backends.rs).  The environment variable is unset, or set to a  *)
(* number.                                                                 *)
(***************************************************************************)
EnvUnset == [set |-> FALSE, value |-> 0]

EnvSet(v) == [set |-> TRUE, value |-> v]

\* build.rs: env::var("SLAS_BLAS_IN_DOT_IF_LEN_GE").unwrap_or("750")
BLAS_IN_DOT_IF_LEN_GE(env) == IF env.set THEN env.value ELSE DefaultThreshold

IsComplex(type) == type \in {"Complex<f32>", "Complex<f64>"}

DotBackendGreater(type, len, env) ==
    IF IsComplex(type) THEN "Blas"
    ELSE IF len > BLAS_IN_DOT_IF_LEN_GE(env) THEN "Blas" ELSE "Rust"

\* impl_default_ops: which backend StaticVecUnion::dot calls
DotBackend(type, len, env) ==
    IF IsComplex(type) THEN "Blas"
    ELSE IF len >= BLAS_IN_DOT_IF_LEN_GE(env) THEN "Blas" ELSE "Rust"

\* StaticVecUnion::<f32, LEN>::dot(self, other) on a build for `features`
UnboundDot(a, b, len, env, features) ==
    IF DotBackend("f32", len, env) = "Blas" THEN BlasDot(a, b, len)
    ELSE RustDot(a, b, len, max_for_type(features, "f32"))

(***************************************************************************)
(* StaticVecUnion: one memory region read either as the array `owned` or   *)
(* as the reference `borrowed`.  Writing one field overwrites the other.   *)
(***************************************************************************)
\* the bytes of a reference read back as elements: not a value of the program
PtrBytes == [n \in 1..CowLen |-> 0 - 1]

UnionOwned(s) == [owned |-> s, borrowed |-> "invalid"]

UnionBorrowed(p) == [owned |-> PtrBytes, borrowed |-> p]

\* *p for a reference p: the only external region is `source`
DerefPtr(p, mem) == IF p = "source" THEN mem ELSE PtrBytes

(***************************************************************************)
(* Constructors                                                            *)
(***************************************************************************)
FromArrayBorrowed(s) == [data |-> UnionOwned(s), is_owned |-> FALSE]

\* impl From<[T; LEN]> for StaticCowVec
FromArray(s) == [data |-> UnionOwned(s), is_owned |-> TRUE]

\* impl From<&'a [T; LEN]> for StaticCowVec
FromRef(p) == [data |-> UnionBorrowed(p), is_owned |-> FALSE]

\* impl From<&'a [T]> for StaticCowVec: panics unless the slice has LEN elements
FromSlice(p, n) ==
    IF n # CowLen THEN [panic |-> TRUE, vec |-> FromRef("invalid")]
    ELSE [panic |-> FALSE, vec |-> FromRef(p)]

\* StaticCowVec::from_ptr: a null pointer panics (expect), otherwise From<&[T; LEN]>
FromPtr(p) ==
    IF p = "null" THEN [panic |-> TRUE, vec |-> FromRef("invalid")]
    ELSE [panic |-> FALSE, vec |-> FromRef(p)]

(***************************************************************************)
(* Accessors.  Each takes the vector c = [data, is_owned] and the memory   *)
(* of the source region, and yields the vector afterwards (self) and the   *)
(* place the returned pointer or reference addresses: "data" is the        *)
(* vector's inline buffer, "source" the external region.                   *)
(***************************************************************************)
DerefCopies(c, mem) ==
    [self |-> [data |-> UnionOwned(DerefPtr(c.data.borrowed, mem)), is_owned |-> TRUE],
     target |-> "data"]

\* impl Deref for StaticCowVec
Deref(c, mem) ==
    IF c.is_owned THEN [self |-> c, target |-> "data"]
    ELSE [self |-> c, target |-> c.data.borrowed]

DerefMutNoCopy(c, mem) ==
    IF c.is_owned THEN [self |-> c, target |-> "data"]
    ELSE [self |-> [data |-> UnionOwned(PtrBytes), is_owned |-> TRUE], target |-> "data"]

\* impl DerefMut for StaticCowVec
DerefMut(c, mem) ==
    IF c.is_owned THEN [self |-> c, target |-> "data"]
    ELSE [self |-> [data |-> UnionOwned(DerefPtr(c.data.borrowed, mem)),
                    is_owned |-> TRUE],
          target |-> "data"]

\* StaticVec::as_ptr for StaticVecUnion: self.owned.as_ptr(), the union itself
union_as_ptr == "data"

as_ptr_copies(c, mem) == DerefMut(c, mem)

\* StaticVec::as_ptr for StaticCowVec
as_ptr(c, mem) ==
    IF c.is_owned THEN [self |-> c, target |-> union_as_ptr]
    ELSE [self |-> c, target |-> c.data.borrowed]

\* StaticVec::mut_moo_ref for StaticCowVec: transmute(self.deref_mut())
mut_moo_ref(c, mem) == DerefMut(c, mem)

\* StaticVec::as_mut_ptr for StaticCowVec
as_mut_ptr(c, mem) ==
    IF c.is_owned THEN [self |-> c, target |-> union_as_ptr]
    ELSE mut_moo_ref(c, mem)

\* StaticVec::moo_ref (default): &*(self.as_ptr() as *const StaticVecUnion)
moo_ref(c, mem) == as_ptr(c, mem)

\* StaticVec::get_unchecked (default): &*self.as_ptr().add(i)
get_unchecked(c, mem) == as_ptr(c, mem)

\* StaticVec::get_unchecked_mut (default): &mut *self.as_mut_ptr().add(i)
get_unchecked_mut(c, mem) == as_mut_ptr(c, mem)

\* StaticVec::static_slice_unchecked (default): self.as_ptr().add(i)
static_slice_unchecked(c, mem) == as_ptr(c, mem)

\* StaticVec::mut_static_slice_unchecked (default): self.as_ptr().add(i) as *mut
mut_static_slice_unchecked(c, mem) == as_ptr(c, mem)

\* StaticVec::as_mut_ptr (default) for WithStaticBackend over the vector:
\* transmute(self.as_ptr()), and WithStaticBackend::as_ptr is self.data.as_ptr()
backend_as_mut_ptr(c, mem) == as_ptr(c, mem)

\* StaticVec::moo_owned (default): transmute_copy(self), the first bytes of
\* the vector read as the array
moo_owned(c) == c.data.owned

RECURSIVE SumSquares(_, _)
SumSquares(a, n) == IF n = 0 THEN 0 ELSE SumSquares(a, n - 1) + a[n] * a[n]

\* impl Normalize for Rust: norm, the root of the sum of the squares (in whole numbers)
RustNorm(a, len) ==
    CHOOSE r \in 0..SumSquares(a, len) :
        r * r <= SumSquares(a, len) /\ SumSquares(a, len) < (r + 1) * (r + 1)

(***************************************************************************)
(* Memory access through a place                                           *)
(***************************************************************************)
Load(place, c, mem, i) ==
    IF place = "data" THEN c.data.owned[i + 1] ELSE DerefPtr(place, mem)[i + 1]

\* the vector and the source after *place.add(i) = v
Store(place, c, mem, i, v) ==
    IF place = "data"
    THEN [self |-> [c EXCEPT !.data = UnionOwned([c.data.owned EXCEPT ![i + 1] = v])],
          mem |-> mem]
    ELSE [self |-> c, mem |-> [mem EXCEPT ![i + 1] = v]]

Self == [data |-> data, is_owned |-> is_owned]

\* the elements an immutable deref of the vector reads
ViewOf(c, mem) == [n \in 1..CowLen |-> Load(Deref(c, mem).target, c, mem, n - 1)]

View == ViewOf(Self, source)

(***************************************************************************)
(* Operations on the vector                                                *)
(***************************************************************************)
\* an operation on the vector leaves the other areas alone
CowFrame == UNCHANGED <<kernelVars, dispatchVars, matrixVars, transposeVars, tensorVars, buildVars, castVars>>

\* the state after a write of v at index i through the access acc
WriteThrough(acc, name, i, v) ==
    LET w == Store(acc.target, acc.self, source, i, v) IN
    /\ data' = w.self.data
    /\ is_owned' = w.self.is_owned
    /\ source' = w.mem
    /\ prev_owned' = is_owned
    /\ written' = TRUE
    /\ op' = name
    /\ ret' = v
    /\ CowFrame

\* the state after a read of index i through the access acc
ReadThrough(acc, name, i) ==
    /\ data' = acc.self.data
    /\ is_owned' = acc.self.is_owned
    /\ source' = source
    /\ prev_owned' = is_owned
    /\ op' = name
    /\ ret' = Load(acc.target, acc.self, source, i)
    /\ UNCHANGED written
    /\ CowFrame

\* v[i] = x: IndexMut through DerefMut
IndexAssign(i, v) == WriteThrough(DerefMut(Self, source), "index_assign", i, v)

\* v.mut_moo_ref()[i] = x
MutMooRefWrite(i, v) == WriteThrough(mut_moo_ref(Self, source), "mut_moo_ref", i, v)

\* *v.as_mut_ptr().add(i) = x
AsMutPtrWrite(i, v) == WriteThrough(as_mut_ptr(Self, source), "as_mut_ptr", i, v)

\* *v.get_unchecked_mut(i) = x
GetUncheckedMutWrite(i, v) ==
    WriteThrough(get_unchecked_mut(Self, source), "get_unchecked_mut", i, v)

\* v.mut_static_slice_unchecked::<1>(i)[0] = x
MutStaticSliceWrite(i, v) ==
    WriteThrough(mut_static_slice_unchecked(Self, source), "mut_static_slice_unchecked", i, v)

\* a write through the vector wrapped in WithStaticBackend:
\* *w.as_mut_ptr().add(i) = x, w.mut_moo_ref()[i] = x, and
\* tensor.index_slice_mut(..)[..] = x, which starts at self.data.as_mut_ptr()
WithBackendWrite(name, i, v) == WriteThrough(backend_as_mut_ptr(Self, source), name, i, v)

\* the owner of the source region writes source[i] = x
ExternalWrite(i, v) ==
    /\ source' = [source EXCEPT ![i + 1] = v]
    /\ prev_owned' = is_owned
    /\ op' = "ext_write"
    /\ ret' = v
    /\ UNCHANGED <<data, is_owned, written>>
    /\ CowFrame

\* v[i]: Index through Deref
IndexRead(i) == ReadThrough(Deref(Self, source), "index", i)

\* *v.as_ptr().add(i)
AsPtrRead(i) == ReadThrough(as_ptr(Self, source), "as_ptr", i)

\* v.moo_ref()[i]
MooRefRead(i) == ReadThrough(moo_ref(Self, source), "moo_ref", i)

\* *v.get_unchecked(i)
GetUncheckedRead(i) == ReadThrough(get_unchecked(Self, source), "get_unchecked", i)

\* v.static_slice_unchecked::<1>(i)[0]
StaticSliceRead(i) ==
    ReadThrough(static_slice_unchecked(Self, source), "static_slice_unchecked", i)

\* v.dot(&v): the un-bound dot of StaticVecUnion, reached through Deref
DotRead ==
    LET acc == Deref(Self, source) IN
    /\ data' = acc.self.data
    /\ is_owned' = acc.self.is_owned
    /\ prev_owned' = is_owned
    /\ op' = "dot"
    /\ ret' = UnboundDot(ViewOf(acc.self, source), ViewOf(acc.self, source), CowLen,
                         EnvUnset, {"sse", "sse2"})
    /\ UNCHANGED <<source, written>>
    /\ CowFrame

\* v.norm(): StaticVecUnion::norm(&mut self), reached through DerefMut
Norm ==
    LET acc == DerefMut(Self, source) IN
    /\ data' = acc.self.data
    /\ is_owned' = acc.self.is_owned
    /\ prev_owned' = is_owned
    /\ op' = "norm"
    /\ ret' = RustNorm(ViewOf(acc.self, source), CowLen)
    /\ UNCHANGED <<source, written>>
    /\ CowFrame

\* v.moo_owned(): the result is the copy returned
MooOwned ==
    /\ prev_owned' = is_owned
    /\ op' = "moo_owned"
    /\ ret' = moo_owned(Self)
    /\ UNCHANGED <<source, data, is_owned, written>>
    /\ CowFrame

\* v.is_owned(), as 1 or 0
IsOwnedRead ==
    /\ prev_owned' = is_owned
    /\ op' = "is_owned"
    /\ ret' = IF is_owned THEN 1 ELSE 0
    /\ UNCHANGED <<source, data, is_owned, written>>
    /\ CowFrame

\* v.len()
LenRead ==
    /\ prev_owned' = is_owned
    /\ op' = "len"
    /\ ret' = CowLen
    /\ UNCHANGED <<source, data, is_owned, written>>
    /\ CowFrame

VecWriteOps == {"index_assign", "mut_moo_ref", "as_mut_ptr", "get_unchecked_mut"}

ReadOps == {"index", "as_ptr", "moo_ref", "get_unchecked", "static_slice_unchecked",
            "dot", "is_owned", "len"}

BorrowingConstructors == {"from_ref", "from_slice", "from_ptr"}

BackendWriteOps == {"backend_as_mut_ptr", "backend_mut_moo_ref", "index_slice_mut"}

InitCow ==
    /\ source \in CowArrays
    /\ ret = 0
    /\ \/ /\ op = "from_array"
          /\ data = FromArray(source).data
          /\ is_owned = FromArray(source).is_owned
       \/ /\ op = "from_ref"
          /\ data = FromRef("source").data
          /\ is_owned = FromRef("source").is_owned
       \/ /\ op = "from_slice"
          /\ ~FromSlice("source", CowLen).panic
          /\ data = FromSlice("source", CowLen).vec.data
          /\ is_owned = FromSlice("source", CowLen).vec.is_owned
       \/ /\ op = "from_ptr"
          /\ ~FromPtr("source").panic
          /\ data = FromPtr("source").vec.data
          /\ is_owned = FromPtr("source").vec.is_owned
    /\ prev_owned = is_owned
    /\ written = FALSE

NextCow ==
    \/ \E i \in CowIdx, v \in Vals : IndexAssign(i, v)
    \/ \E i \in CowIdx, v \in Vals : MutMooRefWrite(i, v)
    \/ \E i \in CowIdx, v \in Vals : AsMutPtrWrite(i, v)
    \/ \E i \in CowIdx, v \in Vals : GetUncheckedMutWrite(i, v)
    \/ \E i \in CowIdx, v \in Vals : MutStaticSliceWrite(i, v)
    \/ \E name \in BackendWriteOps, i \in CowIdx, v \in Vals : WithBackendWrite(name, i, v)
    \/ \E i \in CowIdx, v \in Vals : ExternalWrite(i, v)
    \/ \E i \in CowIdx : IndexRead(i)
    \/ \E i \in CowIdx : AsPtrRead(i)
    \/ \E i \in CowIdx : MooRefRead(i)
    \/ \E i \in CowIdx : GetUncheckedRead(i)
    \/ \E i \in CowIdx : StaticSliceRead(i)
    \/ DotRead
    \/ Norm
    \/ MooOwned
    \/ IsOwnedRead
    \/ LenRead

InitSpecCow == InitCow /\ IdleKernel /\ IdleDispatch /\ IdleMatrix /\ IdleTranspose /\ IdleTensor /\ IdleBuild /\ IdleCast

SpecCow == InitSpecCow /\ [][NextCow]_vars

\* C1: a write-capable access (index assignment, mut_moo_ref, as_mut_ptr,
\* get_unchecked_mut) to a Borrowed vector makes it Owned with a copy of the
\* source, then writes: the source is not modified, and the vector reads the
\* written value at the written index and the source's values elsewhere.
C1_WriteCopiesThenWrites ==
    [][(op' \in VecWriteOps /\ ~is_owned) =>
          /\ is_owned'
          /\ source' = source
          /\ \E i \in CowIdx :
                /\ View' = [source EXCEPT ![i + 1] = ret']
                /\ data'.owned = [source EXCEPT ![i + 1] = ret']]_vars

C1_Witness ==
    /\ op \in VecWriteOps /\ ~prev_owned /\ is_owned
    /\ \E i \in CowIdx :
          /\ View[i + 1] = ret /\ source[i + 1] # ret
          /\ \A j \in CowIdx \ {i} : View[j + 1] = source[j + 1]

\* C2: before the first write through the vector its reads return the
\* source's current contents; after the first write through the vector no
\* external mutation of the source changes the vector; and no write through
\* the vector ever changes the source.
C2_CowIsolation ==
    /\ []((op \in BorrowingConstructors \cup ReadOps \cup {"ext_write"} /\ ~written /\ ~is_owned)
            => View = source)
    /\ [][(written /\ op' = "ext_write") => View' = View]_vars
    /\ [][(written' /\ ~written) => source' = source]_vars
    /\ [][(op' \in VecWriteOps \cup {"mut_static_slice_unchecked"}) => source' = source]_vars

\* C3: a read-only operation on a Borrowed vector leaves it Borrowed, with
\* the same pointer, and leaves the source unchanged.
C3_ReadsDoNotTransition ==
    [][(op' \in ReadOps /\ ~is_owned) =>
          (~is_owned' /\ data' = data /\ source' = source)]_vars

C3_Witness == op \in ReadOps \ {"is_owned", "len"} /\ ~is_owned /\ ret = 1

\* C4: an Owned vector never becomes Borrowed again; a vector made from an
\* owned array is Owned from creation; a vector made from a reference, a
\* slice or a pointer starts Borrowed.
C4_OneWay ==
    /\ [][is_owned => is_owned']_vars
    /\ [](op = "from_array" => is_owned)
    /\ [](op \in BorrowingConstructors => ~is_owned)

C4_Witness == is_owned /\ ~prev_owned /\ written /\ op = "index_assign"

(***************************************************************************)
(* The Native kernels called on operands of LEN elements.  A behaviour     *)
(* picks a build (target features and element type give LANES), the        *)
(* operands and a caller's buffer, and makes one call.                     *)
(***************************************************************************)
Targets == {{"sse", "sse2"}, {"sse", "sse2", "avx", "avx2", "fma"}}

FloatTypes == {"f32", "f64"}

OpNames == {"add", "sub", "mul", "div"}

\* moo![1..=LEN]
Ramp(len) == [i \in 1..len |-> i]

\* operand pairs: b is never 0 and divides a
KernelInputs(len) ==
    {<<a, b>> : a \in [1..len -> {0, 2}], b \in [1..len -> {1, 2}]}
        \cup {<<Ramp(len), Ramp(len)>>}

\* a caller's buffer holds earlier contents
StaleBuffer(len) == [i \in 1..len |-> 7]

\* MaybeUninit::uninit().assume_init(): any contents
UninitBuffers(len) == {[i \in 1..len |-> g] : g \in {7, 9}}

KernelFrame == UNCHANGED <<cowVars, dispatchVars, matrixVars, transposeVars, tensorVars, buildVars, castVars>>

\* Rust.dot(&a, &b)
KernelDot ==
    /\ kop.form = "init"
    /\ kres' = RustDot(ka, kb, klen, kw)
    /\ kop' = [form |-> "dot", fn |-> "dot"]
    /\ UNCHANGED <<klen, kw, ka, kb, kc>>
    /\ KernelFrame

\* Rust.add(&a, &b, &mut c) and its siblings
KernelOp(o) ==
    /\ kop.form = "init"
    /\ kc' = RustBasicOp(o, ka, kb, kc, klen, kw)
    /\ kop' = [form |-> "backend", fn |-> o]
    /\ UNCHANGED <<klen, kw, ka, kb, kres>>
    /\ KernelFrame

\* a.add(&b) and its siblings: the result is a buffer that starts uninitialised
VecOp(o) ==
    /\ kop.form = "init"
    /\ \E buffer \in UninitBuffers(klen) :
          kc' = RustBasicOp(o, ka, kb, buffer, klen, kw)
    /\ kop' = [form |-> "value", fn |-> o]
    /\ UNCHANGED <<klen, kw, ka, kb, kres>>
    /\ KernelFrame

\* a.add_into(&b, buffer) and its siblings
VecOpInto(o) ==
    /\ kop.form = "init"
    /\ kc' = RustBasicOp(o, ka, kb, kc, klen, kw)
    /\ kop' = [form |-> "into", fn |-> o]
    /\ UNCHANGED <<klen, kw, ka, kb, kres>>
    /\ KernelFrame

InitKernel ==
    /\ klen \in 0..MaxKLen
    /\ \E features \in Targets, type \in FloatTypes : kw = max_for_type(features, type)
    /\ \E ab \in KernelInputs(klen) : ka = ab[1] /\ kb = ab[2]
    /\ kc = StaleBuffer(klen)
    /\ kop = [form |-> "init", fn |-> "none"]
    /\ kres = 0

NextKernel ==
    \/ KernelDot
    \/ \E o \in OpNames : KernelOp(o)
    \/ \E o \in OpNames : VecOp(o)
    \/ \E o \in OpNames : VecOpInto(o)

InitSpecKernel == InitKernel /\ IdleCow /\ IdleDispatch /\ IdleMatrix /\ IdleTranspose /\ IdleTensor /\ IdleBuild /\ IdleCast

SpecKernel == InitSpecKernel /\ [][NextKernel]_vars

RECURSIVE SumOfProducts(_, _, _)
\* a[0] * b[0] + ... + a[n - 1] * b[n - 1]
SumOfProducts(a, b, n) ==
    IF n = 0 THEN 0 ELSE SumOfProducts(a, b, n - 1) + a[n] * b[n]

\* C6: the Native dot returns the sum of a[i] * b[i] over all i < LEN, for
\* LEN = 0, LEN below the SIMD width, a multiple of it and not a multiple.
C6_NativeDot ==
    kop.form = "dot" => kres = SumOfProducts(ka, kb, klen)

\* [1, 2, 3, 4] . [1, 2, 3, 4] = 30 on a build whose chunked phase runs twice
C6_Witness ==
    /\ kop.form = "dot" /\ klen = 4 /\ kw = 2
    /\ ka = Ramp(4) /\ kb = Ramp(4) /\ kres = 30

\* C7: Native add, sub, mul and div set out[i] = a[i] op b[i] for every
\* i < LEN and leave a and b unchanged; the value-returning and the
\* buffer-writing forms produce the same element values.
C7_NativeBasicOps ==
    [][(kop'.form \in {"backend", "value", "into"}) =>
          /\ ka' = ka /\ kb' = kb
          /\ kc' = [i \in 1..klen |-> FloatOp(kop'.fn, ka[i], kb[i])]]_vars

\* a.div(&b) with a remainder element after one chunk
C7_Witness ==
    /\ kop = [form |-> "value", fn |-> "div"] /\ klen = 5 /\ kw = 4
    /\ ka[5] = 2 /\ kb[5] = 2 /\ kc[5] = 1 /\ kc[1] = 2

(***************************************************************************)
(* The un-bound dot of two StaticVecUnion on a build whose environment     *)
(* may set the threshold.                                                  *)
(***************************************************************************)
ElementTypes == {"f32", "f64", "Complex<f32>", "Complex<f64>"}

DispatchLens ==
    0..MaxDLen \cup {DefaultThreshold - 1, DefaultThreshold, DefaultThreshold + 1}

BuildEnvs == {EnvUnset} \cup {EnvSet(v) : v \in 0..MaxThreshold}

DispatchFrame == UNCHANGED <<cowVars, kernelVars, matrixVars, transposeVars, tensorVars, buildVars, castVars>>

\* a.dot(&b) for a, b : StaticVecUnion<T, LEN>
UnboundDotCall ==
    /\ dbackend = "none"
    /\ dbackend' = DotBackend(dtype, dlen, denv)
    /\ UNCHANGED <<denv, dlen, dtype>>
    /\ DispatchFrame

InitDispatch ==
    /\ denv \in BuildEnvs
    /\ dlen \in DispatchLens
    /\ dtype \in ElementTypes
    /\ dbackend = "none"

NextDispatch == UnboundDotCall

InitSpecDispatch == InitDispatch /\ IdleCow /\ IdleKernel /\ IdleMatrix /\ IdleTranspose /\ IdleTensor /\ IdleBuild /\ IdleCast

SpecDispatch == InitSpecDispatch /\ [][NextDispatch]_vars

\* C5: the un-bound dot on f32 and f64 runs the Library (Blas) kernel exactly
\* when LEN >= BLAS_IN_DOT_IF_LEN_GE (the build environment's value, 750
\* when unset) and the Native (Rust) kernel otherwise; on complex elements
\* it always runs the Library kernel.
C5_DotDispatch ==
    dbackend # "none" =>
        LET threshold == IF denv.set THEN denv.value ELSE 750 IN
        /\ dbackend \in {"Blas", "Rust"}
        /\ dtype \in {"Complex<f32>", "Complex<f64>"} => dbackend = "Blas"
        /\ dtype \in {"f32", "f64"} => (dbackend = "Blas" <=> dlen >= threshold)

C5_Witness ==
    dbackend = "Blas" /\ dtype = "f64" /\ ~denv.set /\ dlen = 750

(***************************************************************************)
(* Matrix (src/src/tensor.rs).  A matrix is its shape [K, M] (axis 0 is    *)
(* the width), its data and the flag IS_TRANS.                             *)
(***************************************************************************)
\* MatrixShape::<M, K>::slice()
MatrixShape(m, k) == <<k, m>>

\* Shape::axis_len
axis_len(shape, n) == shape[n + 1]

\* Shape::volume
volume(shape) == axis_len(shape, 0) * axis_len(shape, 1)

\* moo![1..=M * K].matrix::<B, M, K>()
matrix(m, k) ==
    [shape |-> MatrixShape(m, k), data |-> Ramp(m * k), backend |-> "Blas", trans |-> FALSE]

RECURSIVE tensor_index_from(_, _, _, _, _)
\* the loop of tensor_index from axis n on; NDIM is the rank of s
tensor_index_from(s, o, n, sum, product) ==
    IF n >= Len(s) THEN [panic |-> FALSE, idx |-> sum]
    ELSE LET i == axis_len(o, n)
             j == axis_len(s, n)
         IN IF ~(i < j) THEN [panic |-> TRUE, idx |-> 0]
            ELSE tensor_index_from(s, o, n + 1, sum + i * product, product * j)

tensor_indexNoStride(s, o) == tensor_index_from(s, o, 0, 0, 0)

tensor_indexLastAxisFastest(s, o) ==
    tensor_index_from([n \in 1..Len(s) |-> s[Len(s) + 1 - n]],
                      [n \in 1..Len(o) |-> o[Len(o) + 1 - n]], 0, 0, 1)

\* tensor_index(s, o)
tensor_index(s, o) == tensor_index_from(s, o, 0, 0, 1)

MatrixIndexIgnoresTrans(mat, r, c) ==
    LET t == tensor_index(mat.shape, <<c, r>>) IN
    IF t.panic THEN [panic |-> TRUE, out |-> <<>>]
    ELSE [panic |-> FALSE, out |-> <<t.idx, mat.data[t.idx + 1]>>]

\* impl Index<(usize, usize)> for Matrix: the data index and the element
MatrixIndex(mat, r, c) ==
    LET i == IF mat.trans THEN <<r, c>> ELSE <<c, r>>
        t == tensor_index(mat.shape, i)
    IN IF t.panic THEN [panic |-> TRUE, out |-> <<>>]
       ELSE [panic |-> FALSE, out |-> <<t.idx, mat.data[t.idx + 1]>>]

\* Matrix::rows
rows(mat) == IF mat.trans THEN axis_len(mat.shape, 0) ELSE axis_len(mat.shape, 1)

\* Matrix::columns
columns(mat) == IF mat.trans THEN axis_len(mat.shape, 1) ELSE axis_len(mat.shape, 0)

transposeSwapsShape(mat) ==
    [mat EXCEPT !.trans = ~mat.trans, !.shape = <<mat.shape[2], mat.shape[1]>>]

\* Matrix::transpose: Matrix(self.0) with the flag !IS_TRANS
transpose(mat) == [mat EXCEPT !.trans = ~mat.trans]

\* Matrix::as_transposed: transmute(self) to the type with the flag !IS_TRANS
as_transposed(mat) == [mat EXCEPT !.trans = ~mat.trans]

\* Matrix::as_transposed_mut: transmute(self) to the type with the flag !IS_TRANS
as_transposed_mut(mat) == [mat EXCEPT !.trans = ~mat.trans]

\* impl Deref for Matrix: panics when IS_TRANS
MatrixDeref(mat) == [panic |-> mat.trans, shape |-> mat.shape, data |-> mat.data]

\* element idx of a region, or whatever lies behind it
ElemAt(v, idx) == IF idx < Len(v) THEN v[idx + 1] ELSE 0 - 1

RECURSIVE GemmSum(_, _, _, _, _, _, _, _, _, _)
\* sum over l < k of op(A)[i, l] * op(B)[l, j]
GemmSum(a, b, i, j, l, k, ta, tb, lda, ldb) ==
    IF l >= k THEN 0
    ELSE (IF ta THEN ElemAt(a, l * lda + i) ELSE ElemAt(a, i * lda + l))
           * (IF tb THEN ElemAt(b, j * ldb + l) ELSE ElemAt(b, l * ldb + j))
         + GemmSum(a, b, i, j, l + 1, k, ta, tb, lda, ldb)

\* Blas.matrix_mul: cblas_sgemm(RowMajor, ta, tb, m, n, k, 1, a, k, b, n, 0, c, n)
\* writes c[i * n + j] for i < m, j < n; overrun tells that it writes past c
BlasMatrixMul(a, b, buffer, m, n, k, ta, tb) ==
    [overrun |-> m * n > Len(buffer),
     out |-> [x \in 1..Len(buffer) |->
                IF x - 1 < m * n
                THEN GemmSum(a, b, (x - 1) \div n, (x - 1) % n, 0, k, ta, tb, k, n)
                ELSE buffer[x]]]

NotDelegated == [m |-> 0, n |-> 0, k |-> 0, a_trans |-> FALSE, b_trans |-> FALSE]

\* Matrix::matrix_mul_buffer(self, other, buffer); debug tells whether
\* debug assertions are compiled in
matrix_mul_buffer(self, other, buffer, debug) ==
    IF MatrixDeref(self).panic \/ MatrixDeref(other).panic
    THEN [panic |-> TRUE, delegated |-> FALSE, args |-> NotDelegated,
          overrun |-> FALSE, out |-> buffer]
    ELSE LET m == axis_len(MatrixDeref(self).shape, 1)
             k == axis_len(MatrixDeref(self).shape, 0)
             n == axis_len(MatrixDeref(other).shape, 0)
             g == BlasMatrixMul(self.data, other.data, buffer, m, n, k,
                                self.trans, other.trans)
         IN IF debug /\ ( \/ volume(MatrixDeref(self).shape) # Len(self.data)
                          \/ volume(MatrixDeref(other).shape) # Len(other.data)
                          \/ m * n # Len(buffer) )
            THEN [panic |-> TRUE, delegated |-> FALSE, args |-> NotDelegated,
                  overrun |-> FALSE, out |-> buffer]
            ELSE [panic |-> FALSE, delegated |-> TRUE,
                  args |-> [m |-> m, n |-> n, k |-> k,
                            a_trans |-> self.trans, b_trans |-> other.trans],
                  overrun |-> g.overrun, out |-> g.out]

\* Matrix::matrix_mul::<.., OLEN, ..>(self, other): the buffer starts as [0; OLEN]
matrix_mul(self, other, olen, debug) ==
    matrix_mul_buffer(self, other, [x \in 1..olen |-> 0], debug)

MatrixFrame == UNCHANGED <<cowVars, kernelVars, dispatchVars, transposeVars, tensorVars, buildVars, castVars>>

NoResult == [panic |-> FALSE, out |-> <<>>]

\* a = a.transpose()
TransposeA ==
    /\ ma' = transpose(ma)
    /\ mop' = "transpose"
    /\ margs' = <<>>
    /\ mres' = NoResult
    /\ UNCHANGED <<mb, molen, mdebug>>
    /\ MatrixFrame

\* b = b.transpose()
TransposeB ==
    /\ mb' = transpose(mb)
    /\ mop' = "transpose"
    /\ margs' = <<>>
    /\ mres' = NoResult
    /\ UNCHANGED <<ma, molen, mdebug>>
    /\ MatrixFrame

\* a[(r, c)]
MatrixIndexRead(r, c) ==
    /\ mop' = "index"
    /\ margs' = <<r, c>>
    /\ mres' = MatrixIndex(ma, r, c)
    /\ UNCHANGED <<ma, mb, molen, mdebug>>
    /\ MatrixFrame

\* a.as_transposed()[(r, c)]
AsTransposedRead(r, c) ==
    /\ mop' = "as_transposed"
    /\ margs' = <<r, c>>
    /\ mres' = MatrixIndex(as_transposed(ma), r, c)
    /\ UNCHANGED <<ma, mb, molen, mdebug>>
    /\ MatrixFrame

\* a.as_transposed_mut()[(r, c)]
AsTransposedMutRead(r, c) ==
    /\ mop' = "as_transposed_mut"
    /\ margs' = <<r, c>>
    /\ mres' = MatrixIndex(as_transposed_mut(ma), r, c)
    /\ UNCHANGED <<ma, mb, molen, mdebug>>
    /\ MatrixFrame

\* (a.rows(), a.columns())
MatrixDims ==
    /\ mop' = "dims"
    /\ margs' = <<>>
    /\ mres' = [panic |-> FALSE, out |-> <<rows(ma), columns(ma)>>]
    /\ UNCHANGED <<ma, mb, molen, mdebug>>
    /\ MatrixFrame

\* a.matrix_mul::<.., OLEN, ..>(&b) on conformable operands.  A write past
\* the buffer is undefined: the call crashes or clobbers what follows it.
MatrixMul(olen) ==
    /\ columns(ma) = rows(mb)
    /\ LET call == matrix_mul(ma, mb, olen, mdebug) IN
       /\ molen' = olen
       /\ mop' = "matrix_mul"
       /\ margs' = [delegated |-> call.delegated, args |-> call.args]
       /\ \E crash \in BOOLEAN :
             /\ crash => call.overrun
             /\ mres' = [panic |-> call.panic \/ crash, out |-> call.out]
    /\ UNCHANGED <<ma, mb, mdebug>>
    /\ MatrixFrame

\* the OLEN a caller may name: the right one, one less, one more
OutputLens(a, b) ==
    {rows(a) * columns(b) - 1, rows(a) * columns(b), rows(a) * columns(b) + 1}

InitMatrix ==
    /\ \E m \in 1..MaxDim, k \in 1..MaxDim : ma = matrix(m, k)
    /\ \E m \in 1..MaxDim, k \in 1..MaxDim : mb = matrix(m, k)
    /\ molen = 0
    /\ mdebug \in BOOLEAN
    /\ mop = "matrix"
    /\ margs = <<>>
    /\ mres = NoResult

NextMatrix ==
    \/ TransposeA
    \/ TransposeB
    \/ \E r \in 0..MaxDim, c \in 0..MaxDim : MatrixIndexRead(r, c)
    \/ MatrixDims
    \/ \E olen \in OutputLens(ma, mb) : MatrixMul(olen)

InitSpecMatrix == InitMatrix /\ IdleCow /\ IdleKernel /\ IdleDispatch /\ IdleTranspose /\ IdleTensor /\ IdleBuild /\ IdleCast

SpecMatrix == InitSpecMatrix /\ [][NextMatrix]_vars

\* element (r, c) of the matrix a view stands for
LogicalAt(mat, r, c) ==
    IF mat.trans THEN mat.data[c * mat.shape[1] + r + 1]
    ELSE mat.data[r * mat.shape[1] + c + 1]

RECURSIVE LogicalSum(_, _, _, _, _)
LogicalSum(a, b, i, j, l) ==
    IF l = 0 THEN 0
    ELSE LogicalSum(a, b, i, j, l - 1) + LogicalAt(a, i, l - 1) * LogicalAt(b, l - 1, j)

\* the row-major product of the matrices two views stand for
LogicalProduct(a, b) ==
    [x \in 1..(rows(a) * columns(b)) |->
        LogicalSum(a, b, (x - 1) \div columns(b), (x - 1) % columns(b), columns(a))]

\* C8: matrix_mul returns the standard matrix product of the operands as
\* their lazy-transpose flags present them.
C8_MatrixMulHonorsTranspose ==
    (mop = "matrix_mul" /\ molen = rows(ma) * columns(mb)) =>
        (~mres.panic /\ mres.out = LogicalProduct(ma, mb))

\* C9: the matrix-multiply entry delegates with m = self.rows(),
\* k = self.columns(), n = other.columns() and the two transpose flags, after
\* checking that the shapes' volumes are LEN and LEN2 and that m * n = OLEN.
C9_MatrixMulArguments ==
    mop = "matrix_mul" =>
        IF /\ volume(ma.shape) = Len(ma.data)
           /\ volume(mb.shape) = Len(mb.data)
           /\ rows(ma) * columns(mb) = molen
        THEN /\ margs.delegated
             /\ margs.args = [m |-> rows(ma), n |-> columns(mb), k |-> columns(ma),
                               a_trans |-> ma.trans, b_trans |-> mb.trans]
        ELSE ~margs.delegated /\ mres.panic

\* C10: on a transposed view, (r, c) is the element (c, r) of the
\* untransposed matrix, rows() and columns() are swapped, and an index
\* outside the transposed dimensions panics.
C10_TransposedView ==
    LET u == transpose(ma) IN
    /\ (mop = "dims" /\ ma.trans) =>
          (mres.out = <<columns(u), rows(u)>> /\ mres.out = <<ma.shape[1], ma.shape[2]>>)
    /\ (mop = "index" /\ ma.trans) =>
          LET r == margs[1]
              c == margs[2]
          IN IF r < columns(u) /\ c < rows(u)
             THEN /\ ~mres.panic
                  /\ mres = MatrixIndex(u, c, r)
                  /\ mres.out = <<c * ma.shape[1] + r, ma.data[c * ma.shape[1] + r + 1]>>
             ELSE mres.panic

\* m.as_transposed()[(2, 0)] of the 2x3 matrix 1..6 is m[(0, 2)] = 3
C10_Witness ==
    /\ mop = "index" /\ ma.trans /\ ma.shape = <<3, 2>> /\ margs = <<2, 0>>
    /\ mres = [panic |-> FALSE, out |-> <<2, 3>>]

(***************************************************************************)
(* Tensors with a runtime shape [usize; NDIM] and the matrices made of     *)
(* them.  A tensor is its shape (axis 0 first), its data and its backend.  *)
(***************************************************************************)
RECURSIVE shape_volume_from(_, _)
shape_volume_from(shape, n) ==
    IF n >= Len(shape) THEN 1 ELSE axis_len(shape, n) * shape_volume_from(shape, n + 1)

\* Shape::volume (default): the product of the axis lengths
shape_volume(shape) == shape_volume_from(shape, 0)

NoTensor == [shape |-> <<>>, data |-> <<>>, backend |-> "none"]

reshapeUnchecked(vec, shape, backend) ==
    [panic |-> FALSE, tensor |-> [shape |-> shape, data |-> vec, backend |-> backend]]

\* StaticVec::reshape(self, shape, backend): panics unless shape.volume() == LEN
reshape(vec, shape, backend) ==
    IF shape_volume(shape) # Len(vec) THEN [panic |-> TRUE, tensor |-> NoTensor]
    ELSE [panic |-> FALSE, tensor |-> [shape |-> shape, data |-> vec, backend |-> backend]]

\* Tensor::matrix: Matrix(self) with IS_TRANS = false
TensorMatrix(tensor) ==
    [shape |-> tensor.shape, data |-> tensor.data, backend |-> tensor.backend,
     trans |-> FALSE]

\* impl Index<(usize, usize)> for Tensor: tensor_index(&self.shape, &[i.1, i.0])
TensorIndexPair(tensor, r, c) ==
    LET i == tensor_index(tensor.shape, <<c, r>>) IN
    IF i.panic THEN [panic |-> TRUE, out |-> <<>>]
    ELSE [panic |-> FALSE, out |-> <<i.idx, tensor.data[i.idx + 1]>>]

MatrixDerefMutKeepsShape(mat) ==
    IF mat.trans
    THEN [mat EXCEPT !.data = transpose_inplace(mat.data, axis_len(mat.shape, 1), Len(mat.data))]
    ELSE mat

\* impl DerefMut for Matrix<.., IS_TRANS, [usize; 2]>: the matrix afterwards; the
\* tensor returned is its field 0.  IS_TRANS is a parameter of the type and stays.
MatrixDerefMut(mat) ==
    IF mat.trans
    THEN [mat EXCEPT !.data = transpose_inplace(mat.data, axis_len(mat.shape, 1), Len(mat.data)),
                     !.shape = <<mat.shape[2], mat.shape[1]>>]
    ELSE mat

\* the tensor a matrix wraps: self.0
Field0(mat) == [shape |-> mat.shape, data |-> mat.data, backend |-> mat.backend]

\* a.deref_mut()
DerefMutA ==
    /\ ma' = MatrixDerefMut(ma)
    /\ mop' = "deref_mut"
    /\ margs' = <<>>
    /\ mres' = [panic |-> FALSE, out |-> MatrixDerefMut(ma).data]
    /\ UNCHANGED <<mb, molen, mdebug>>
    /\ MatrixFrame

\* moo![1..=M * K].reshape([k, m], Rust).matrix()
InitView ==
    /\ \E m \in 1..MaxDim, k \in 1..MaxDim :
          ma = TensorMatrix(reshape(Ramp(m * k), <<k, m>>, "Rust").tensor)
    /\ mb = [shape |-> <<>>, data |-> <<>>, backend |-> "none", trans |-> FALSE]
    /\ molen = 0
    /\ mdebug = FALSE
    /\ mop = "matrix"
    /\ margs = <<>>
    /\ mres = NoResult

NextView ==
    \/ TransposeA
    \/ DerefMutA
    \/ \E r \in 0..MaxDim, c \in 0..MaxDim : MatrixIndexRead(r, c)
    \/ \E r \in 0..MaxDim, c \in 0..MaxDim : AsTransposedRead(r, c)
    \/ \E r \in 0..MaxDim, c \in 0..MaxDim : AsTransposedMutRead(r, c)
    \/ MatrixDims

InitSpecView == InitView /\ IdleCow /\ IdleKernel /\ IdleDispatch /\ IdleTranspose /\ IdleTensor /\ IdleBuild /\ IdleCast

SpecView == InitSpecView /\ [][NextView]_vars

\* C11: transpose, as_transposed and as_transposed_mut only toggle IS_TRANS:
\* data, its order, the shape and the backend are unchanged, a view reads the
\* element the toggled flag selects, and transposing twice gives the original
\* flag and the same element at every (r, c).
C11_TransposeTogglesFlag ==
    /\ [][mop' = "transpose" =>
            \/ ma' = [ma EXCEPT !.trans = ~ma.trans] /\ mb' = mb
            \/ mb' = [mb EXCEPT !.trans = ~mb.trans] /\ ma' = ma]_vars
    /\ [][mop' \in {"as_transposed", "as_transposed_mut"} =>
            /\ ma' = ma
            /\ mres' = MatrixIndex([ma EXCEPT !.trans = ~ma.trans], margs'[1], margs'[2])]_vars
    /\ [](/\ transpose(transpose(ma)) = ma
          /\ \A r \in 0..MaxDim, c \in 0..MaxDim :
                MatrixIndex(transpose(transpose(ma)), r, c) = MatrixIndex(ma, r, c))

\* the 2x3 matrix 1..6 after transpose(): same data and shape, flag set
C11_Witness ==
    /\ mop = "transpose"
    /\ ma = [shape |-> <<3, 2>>, data |-> Ramp(6), backend |-> "Rust", trans |-> TRUE]

\* C12: deref_mut of a transposed matrix with a runtime shape permutes the
\* buffer with the Native transpose kernel and swaps the two shape extents:
\* the returned tensor, read as a plain row-major matrix, has at every (r, c)
\* the element the transposed view had at (r, c).  On a matrix that is not
\* transposed deref_mut changes nothing.
C12_DerefMutMaterializes ==
    [][mop' = "deref_mut" =>
         IF ma.trans
         THEN /\ ma'.shape = <<ma.shape[2], ma.shape[1]>>
              /\ ma'.data = transpose_inplace(ma.data, ma.shape[2], Len(ma.data))
              /\ \A r \in 0..(rows(ma) - 1), c \in 0..(columns(ma) - 1) :
                    /\ ~TensorIndexPair(Field0(ma'), r, c).panic
                    /\ TensorIndexPair(Field0(ma'), r, c).out[2] = LogicalAt(ma, r, c)
                    /\ TensorIndexPair(Field0(ma'), r, c).out[2] = MatrixIndex(ma, r, c).out[2]
         ELSE ma' = ma]_vars

\* the 2x3 matrix 1..6, transposed, materializes as [1, 4, 2, 5, 3, 6] with shape [2, 3]
C12_Witness ==
    /\ mop = "deref_mut" /\ ma.trans
    /\ ma.shape = <<2, 3>> /\ ma.data = <<1, 4, 2, 5, 3, 6>>

\* C13: deref_mut clears the transpose flag and keeps the logical contents:
\* rows(), columns() and the element Matrix indexing reads at every in-range
\* (r, c) are the same after it as before, and a second deref_mut does not
\* permute the buffer again.
C13_DerefMutPreservesLogical ==
    [][mop' = "deref_mut" =>
         /\ ~ma'.trans
         /\ rows(ma') = rows(ma) /\ columns(ma') = columns(ma)
         /\ \A r \in 0..(rows(ma) - 1), c \in 0..(columns(ma) - 1) :
               MatrixIndex(ma', r, c) .out[2] = MatrixIndex(ma, r, c).out[2]
         /\ MatrixDerefMut(ma').data = ma'.data]_vars

(***************************************************************************)
(* The Native transpose kernel called on buffers of LEN elements: once,    *)
(* twice (the result of the first call is the input of the second), or in  *)
(* place.                                                                  *)
(***************************************************************************)
\* [1, 4, 2, 5, 3, 6] and its like: the two halves of the ramp interleaved
Interleaved(len) ==
    [i \in 1..len |-> (i - 1) \div 2 + 1 + ((i - 1) % 2) * ((len + 1) \div 2)]

TransposeInputs(len) ==
    {Ramp(len), Interleaved(len), [i \in 1..len |-> len + 1 - i]}

\* let mut b = [0.; LEN]
ZeroBuffer(len) == [i \in 1..len |-> 0]

TransposeFrame == UNCHANGED <<cowVars, kernelVars, dispatchVars, matrixVars, tensorVars, buildVars, castVars>>

\* Rust.transpose(&a, &mut buffer, columns)
Transpose(cols) ==
    /\ top = "init"
    /\ tbuffer' = RustTranspose(tsrc, tbuffer, cols, tlen)
    /\ tcolumns' = <<cols>>
    /\ top' = "transpose"
    /\ UNCHANGED <<tlen, torig, tsrc>>
    /\ TransposeFrame

\* Rust.transpose(&buffer, &mut buffer2, columns) on the result of the first call
TransposeBack(cols) ==
    /\ top = "transpose"
    /\ tsrc' = tbuffer
    /\ tbuffer' = RustTranspose(tbuffer, ZeroBuffer(tlen), cols, tlen)
    /\ tcolumns' = Append(tcolumns, cols)
    /\ top' = "transpose_twice"
    /\ UNCHANGED <<tlen, torig>>
    /\ TransposeFrame

\* Rust.transpose_inplace(&mut a, columns), at most twice
TransposeInplace(cols) ==
    /\ top \in {"init", "transpose_inplace"}
    /\ Len(tcolumns) < 2
    /\ tsrc' = transpose_inplace(tsrc, cols, tlen)
    /\ tcolumns' = Append(tcolumns, cols)
    /\ top' = "transpose_inplace"
    /\ UNCHANGED <<tlen, torig, tbuffer>>
    /\ TransposeFrame

InitTranspose ==
    /\ tlen \in 0..MaxTLen
    /\ torig \in TransposeInputs(tlen)
    /\ tsrc = torig
    /\ tbuffer = ZeroBuffer(tlen)
    /\ tcolumns = <<>>
    /\ top = "init"

NextTranspose ==
    \/ \E cols \in 0..(tlen + 1) : Transpose(cols)
    \/ \E cols \in 0..(tlen + 1) : TransposeBack(cols)
    \/ \E cols \in 0..(tlen + 1) : TransposeInplace(cols)

InitSpecTranspose == InitTranspose /\ IdleCow /\ IdleKernel /\ IdleDispatch /\ IdleMatrix /\ IdleTensor /\ IdleBuild /\ IdleCast

SpecTranspose == InitSpecTranspose /\ [][NextTranspose]_vars

\* c is a column count that divides n
Divides(c, n) == c >= 1 /\ n % c = 0

\* C14: for every column count c that divides LEN, the transpose kernel with
\* columns = c followed by the kernel with columns = LEN / c on the result
\* gives back the original buffer; transpose_inplace twice does the same.
C14_TransposeTwice ==
    /\ (top = "transpose_twice" /\ Divides(tcolumns[1], tlen)
            /\ tcolumns[2] = tlen \div tcolumns[1])
         => tbuffer = torig
    /\ (top = "transpose_inplace" /\ Len(tcolumns) = 2 /\ Divides(tcolumns[1], tlen)
            /\ tcolumns[2] = tlen \div tcolumns[1])
         => tsrc = torig

\* [1..6] with columns = 3 gives [1, 3, 5, 2, 4, 6]; that with columns = 2 gives [1..6]
C14_Witness ==
    /\ top = "transpose_twice" /\ tlen = 6 /\ tcolumns = <<3, 2>>
    /\ torig = Ramp(6) /\ tsrc = <<1, 3, 5, 2, 4, 6>> /\ tbuffer = Ramp(6)

\* C15 as stated: `columns` is the column count of the input a, and the
\* kernel writes buffer[col * nrows + row] = a[row * cols + col] for
\* nrows = LEN / cols, row < nrows, col < cols.
C15_ColumnsOfInput ==
    (top = "transpose" /\ Divides(tcolumns[1], tlen)) =>
        LET cols == tcolumns[1]
            nrows == tlen \div tcolumns[1]
        IN \A row \in 0..(nrows - 1), col \in 0..(cols - 1) :
              tbuffer[col * nrows + row + 1] = tsrc[row * cols + col + 1]

\* C15 amended: `columns` is the column count of the output (the row count
\* of the input a): with nrows = LEN / cols the kernel writes
\* buffer[row * cols + col] = a[col * nrows + row] for row < nrows, col < cols.
C15_ColumnsOfOutput ==
    (top = "transpose" /\ Divides(tcolumns[1], tlen)) =>
        LET cols == tcolumns[1]
            nrows == tlen \div tcolumns[1]
        IN \A row \in 0..(nrows - 1), col \in 0..(cols - 1) :
              tbuffer[row * cols + col + 1] = tsrc[col * nrows + row + 1]

\* Rust.transpose(&[1, 4, 2, 5, 3, 6], &mut b, 3) leaves b = [1, 2, 3, 4, 5, 6]
C15_Witness ==
    /\ top = "transpose" /\ tlen = 6 /\ tcolumns = <<3>>
    /\ tsrc = <<1, 4, 2, 5, 3, 6>> /\ tbuffer = Ramp(6)

(***************************************************************************)
(* Tensors of any rank: a vector is reshaped (or made a matrix), indexed,  *)
(* and sliced into sub-tensors that borrow the data of their parent.       *)
(***************************************************************************)
\* moo![f32: 0..LEN]
Ramp0(len) == [i \in 1..len |-> i - 1]

\* impl Shape<2> for (usize, usize): axis_len(0) is self.1, axis_len(1) is self.0
TupleShape(a, b) == <<b, a>>

\* Shape::slice of a shape of the given type; unimplemented!() for (usize, usize)
shape_slice(kind, shape) ==
    IF kind = "tuple" THEN [panic |-> TRUE, slice |-> <<>>]
    ELSE [panic |-> FALSE, slice |-> shape]

\* StaticVec::matrix::<B, M, K>(): panics unless M * K == LEN
vec_matrix(vec, m, k, backend) ==
    IF m * k # Len(vec) THEN [panic |-> TRUE, tensor |-> NoTensor]
    ELSE [panic |-> FALSE,
          tensor |-> [shape |-> MatrixShape(m, k), data |-> vec, backend |-> backend]]

\* impl Index<[usize; NDIM]> for Tensor: the data index and the element
TensorIndex(tensor, o) ==
    LET t == tensor_index(tensor.shape, o) IN
    IF t.panic THEN [panic |-> TRUE, out |-> <<>>]
    ELSE [panic |-> FALSE, out |-> <<t.idx, tensor.data[t.idx + 1]>>]

NoSub == [offset |-> 0, shape |-> <<>>, len |-> 0, backend |-> "none"]

\* Tensor::index_slice / index_slice_mut: the sub-tensor is a pointer into the
\* data of the parent (offset), the leading NDIM - 1 axis lengths, and the
\* LEN of the parent as the LEN of its own type
index_slice(tensor, kind, i) ==
    LET NDIM == Len(tensor.shape) IN
    IF ~(NDIM > 1) THEN [panic |-> TRUE, sub |-> NoSub]
    ELSE IF ~(i < axis_len(tensor.shape, 0)) THEN [panic |-> TRUE, sub |-> NoSub]
    ELSE IF axis_len(tensor.shape, NDIM - 1) = 0 THEN [panic |-> TRUE, sub |-> NoSub]
    ELSE IF shape_slice(kind, tensor.shape).panic THEN [panic |-> TRUE, sub |-> NoSub]
    ELSE [panic |-> FALSE,
          sub |-> [offset |-> i * (shape_volume(tensor.shape)
                                      \div axis_len(tensor.shape, NDIM - 1)),
                   shape |-> SubSeq(shape_slice(kind, tensor.shape).slice, 1, NDIM - 1),
                   len |-> Len(tensor.data),
                   backend |-> tensor.backend]]

\* what a read past the elements of the parent can return
Garbage == {-1, 0}

\* get_unchecked(address) on the data the sub-tensor points into
MemoryAt(tensor, address) ==
    IF address < Len(tensor.data) THEN {tensor.data[address + 1]} ELSE Garbage

ReshapeNames == {"reshape", "reshape_ref", "reshape_mut_ref"}
MatrixNames == {"matrix", "matrix_ref", "matrix_mut_ref"}
SliceNames == {"index_slice", "index_slice_mut"}

\* shapes [usize; NDIM] and index arrays [usize; NDIM]
Indexes(ndim) == [1..ndim -> 0..MaxAxis]
ArrayShapes == UNION {Indexes(ndim) : ndim \in 1..MaxRank}
\* the indexes into a shape that are in range or past the end of an axis by one
IndexesNear(shape) == {o \in Indexes(Len(shape)) : \A n \in 1..Len(shape) : o[n] <= shape[n]}

TensorFrame == UNCHANGED <<cowVars, kernelVars, dispatchVars, matrixVars, transposeVars, buildVars, castVars>>

\* a tensor was made and can be used
HasTensor == xop \in ReshapeNames \cup MatrixNames /\ ~xres.panic

\* vec.reshape(shape, Rust), vec.reshape_ref(..), vec.reshape_mut_ref(..)
Reshape(name, kind, shape) ==
    /\ xop = "vec"
    /\ xtensor' = reshape(xvec, shape, "Rust").tensor
    /\ xkind' = kind
    /\ xop' = name
    /\ xargs' = <<shape>>
    /\ xres' = [panic |-> reshape(xvec, shape, "Rust").panic, out |-> <<>>]
    /\ UNCHANGED <<xvec, xsub>>
    /\ TensorFrame

\* vec.matrix::<Rust, M, K>(), vec.matrix_ref(), vec.matrix_mut_ref()
VecMatrix(name, m, k) ==
    /\ xop = "vec"
    /\ xtensor' = vec_matrix(xvec, m, k, "Rust").tensor
    /\ xkind' = "MatrixShape"
    /\ xop' = name
    /\ xargs' = <<m, k>>
    /\ xres' = [panic |-> vec_matrix(xvec, m, k, "Rust").panic, out |-> <<>>]
    /\ UNCHANGED <<xvec, xsub>>
    /\ TensorFrame

\* t[o] for o : [usize; NDIM]
TensorIndexRead(o) ==
    /\ HasTensor
    /\ xres' = TensorIndex(xtensor, o)
    /\ xop' = "index"
    /\ xargs' = <<o>>
    /\ UNCHANGED <<xvec, xkind, xtensor, xsub>>
    /\ TensorFrame

\* t[(r, c)] on a tensor of rank 2
TensorIndexPairRead(r, c) ==
    /\ HasTensor
    /\ Len(xtensor.shape) = 2
    /\ xres' = TensorIndexPair(xtensor, r, c)
    /\ xop' = "index_pair"
    /\ xargs' = <<r, c>>
    /\ UNCHANGED <<xvec, xkind, xtensor, xsub>>
    /\ TensorFrame

\* t.index_slice(i), t.index_slice_mut(i)
IndexSlice(name, i) ==
    /\ HasTensor
    /\ xsub' = index_slice(xtensor, xkind, i).sub
    /\ xres' = [panic |-> index_slice(xtensor, xkind, i).panic, out |-> <<>>]
    /\ xop' = name
    /\ xargs' = <<i>>
    /\ UNCHANGED <<xvec, xkind, xtensor>>
    /\ TensorFrame

\* sub[o] on the sub-tensor: tensor_index on its shape, then get_unchecked
SubTensorRead(o) ==
    /\ xop \in SliceNames /\ ~xres.panic
    /\ LET t == tensor_index(xsub.shape, o) IN
          IF t.panic THEN xres' = [panic |-> TRUE, out |-> <<>>]
          ELSE \E v \in MemoryAt(xtensor, xsub.offset + t.idx) :
                  xres' = [panic |-> FALSE, out |-> <<xsub.offset + t.idx, v>>]
    /\ xop' = "sub_index"
    /\ xargs' = <<xargs[1], o>>
    /\ UNCHANGED <<xvec, xkind, xtensor, xsub>>
    /\ TensorFrame

\* StaticVec::as_mut_ptr for a reference (impl_vec_for_refs): panics unless
\* the reference is spelled with `mut`
ref_as_mut_ptr_panics(ref) == ref \notin {"&mut", "&mut &mut"}

\* the reference the sub-tensor of index_slice / index_slice_mut holds
SliceRef(name) == IF name = "index_slice_mut" THEN "&mut" ELSE "&"

\* sub[o] = v on a sub-tensor: tensor_index, then get_unchecked_mut, which
\* asks the reference for its mutable pointer; the write lands in the data
\* of the parent, or past it
SubTensorWrite(o, v) ==
    /\ xop \in SliceNames /\ ~xres.panic
    /\ LET t == tensor_index(xsub.shape, o)
           address == xsub.offset + t.idx
       IN IF t.panic \/ ref_as_mut_ptr_panics(SliceRef(xop))
          THEN xres' = [panic |-> TRUE, out |-> <<>>] /\ xtensor' = xtensor
          ELSE /\ xres' = [panic |-> FALSE, out |-> <<address, v>>]
               /\ xtensor' = IF address < Len(xtensor.data)
                             THEN [xtensor EXCEPT !.data[address + 1] = v]
                             ELSE xtensor
    /\ xop' = IF xop = "index_slice_mut" THEN "index_slice_mut_write" ELSE "index_slice_write"
    /\ xargs' = <<xargs[1], o, v>>
    /\ UNCHANGED <<xvec, xkind, xsub>>
    /\ TensorFrame

InitTensor ==
    /\ \E len \in 0..MaxVLen : xvec = Ramp0(len)
    /\ xkind = "none"
    /\ xtensor = NoTensor
    /\ xsub = NoSub
    /\ xop = "vec"
    /\ xargs = <<>>
    /\ xres = NoResult

NextTensor ==
    \/ \E name \in ReshapeNames, shape \in ArrayShapes : Reshape(name, "array", shape)
    \/ \E name \in ReshapeNames, a \in 0..MaxAxis, b \in 0..MaxAxis :
          Reshape(name, "tuple", TupleShape(a, b))
    \/ \E name \in MatrixNames, m \in 0..MaxAxis, k \in 0..MaxAxis : VecMatrix(name, m, k)
    \/ \E o \in IndexesNear(xtensor.shape) : TensorIndexRead(o)
    \/ \E r \in 0..MaxAxis, c \in 0..MaxAxis : TensorIndexPairRead(r, c)
    \/ \E name \in SliceNames, i \in 0..MaxAxis : IndexSlice(name, i)
    \/ \E o \in IndexesNear(xsub.shape) : SubTensorRead(o)
    \/ \E o \in IndexesNear(xsub.shape) : SubTensorWrite(o, 8)

InitSpecTensor ==
    InitTensor /\ IdleCow /\ IdleKernel /\ IdleDispatch /\ IdleMatrix /\ IdleTranspose
        /\ IdleBuild /\ IdleCast

SpecTensor == InitSpecTensor /\ [][NextTensor]_vars

\* the product of the first n axis lengths of S
RECURSIVE Stride(_, _)
Stride(S, n) == IF n = 0 THEN 1 ELSE S[n] * Stride(S, n - 1)

\* the sum over the first n axes of o[j] times the product of the axis lengths before j
RECURSIVE IndexSum(_, _, _)
IndexSum(S, o, n) == IF n = 0 THEN 0 ELSE o[n] * Stride(S, n - 1) + IndexSum(S, o, n - 1)

InRange(S, o) == \A n \in 1..Len(S) : o[n] < S[n]

\* what indexing shape S with o gives under the claimed formula
ClaimedIndex(tensor, o) ==
    IF InRange(tensor.shape, o)
    THEN [panic |-> FALSE,
          out |-> <<IndexSum(tensor.shape, o, Len(o)),
                    tensor.data[IndexSum(tensor.shape, o, Len(o)) + 1]>>]
    ELSE [panic |-> TRUE, out |-> <<>>]

\* C16: indexing a tensor of shape S with o addresses the element number
\* sum of o[n] * product of S.axis_len(j) for j < n when every o[n] is below
\* S.axis_len(n), and panics with no element read otherwise; on a tensor of
\* rank 2 the pair (row, column) addresses what the index [column, row] does.
C16_TensorIndex ==
    /\ xop = "index" => xres = ClaimedIndex(xtensor, xargs[1])
    /\ xop = "index_pair" => xres = ClaimedIndex(xtensor, <<xargs[2], xargs[1]>>)

\* index [3, 0, 0] on shape [3, 3, 3] panics
C16_Witness ==
    /\ xop = "index" /\ xtensor.shape = <<3, 3, 3>> /\ xargs = << <<3, 0, 0>> >>
    /\ xres = [panic |-> TRUE, out |-> <<>>]

\* C17: reshape and matrix (and their _ref and _mut_ref forms) panic and
\* make no tensor when the volume of the shape differs from LEN, and
\* otherwise give a tensor of that shape over the elements of the vector
\* in their order.
C17_ReshapeChecksVolume ==
    /\ xop \in ReshapeNames =>
          IF Stride(xargs[1], Len(xargs[1])) # Len(xvec)
          THEN xres.panic /\ xtensor = NoTensor
          ELSE ~xres.panic /\ xtensor.shape = xargs[1] /\ xtensor.data = xvec
    /\ xop \in MatrixNames =>
          IF xargs[1] * xargs[2] # Len(xvec)
          THEN xres.panic /\ xtensor = NoTensor
          ELSE ~xres.panic /\ xtensor.shape = <<xargs[2], xargs[1]>> /\ xtensor.data = xvec

\* a vector of 4 elements reshaped as [3, 2] panics
C17_Witness ==
    /\ xop = "reshape" /\ Len(xvec) = 4 /\ xargs = << <<3, 2>> >>
    /\ xres.panic /\ xtensor = NoTensor

\* C18: every tensor made by reshape, matrix, index_slice or index_slice_mut
\* has a shape whose volume is the LEN of its vector type.
C18_VolumeIsLen ==
    /\ HasTensor => shape_volume(xtensor.shape) = Len(xtensor.data)
    /\ (xop \in SliceNames /\ ~xres.panic) => shape_volume(xsub.shape) = xsub.len

\* C19: an accepted index_slice(i) gives a sub-tensor with the first NDIM - 1
\* axis lengths of the parent whose element at every in-range index o is the
\* element of the parent at the index o followed by i.
C19_IndexSliceElements ==
    (xop \in SliceNames /\ ~xres.panic) =>
        /\ xsub.shape = SubSeq(xtensor.shape, 1, Len(xtensor.shape) - 1)
        /\ \A o \in Indexes(Len(xsub.shape)) :
              InRange(xsub.shape, o) =>
                  /\ InRange(xtensor.shape, Append(o, xargs[1]))
                  /\ xsub.offset + IndexSum(xsub.shape, o, Len(o))
                        = IndexSum(xtensor.shape, Append(o, xargs[1]), Len(o) + 1)

\* C20: index_slice(i) and index_slice_mut(i) panic exactly when NDIM <= 1 or
\* i >= axis_len(0); when they panic there is no sub-tensor and the parent
\* is as it was.
C20_IndexSlicePanics ==
    xop \in SliceNames =>
        /\ xres.panic <=> (Len(xtensor.shape) <= 1 \/ xargs[1] >= xtensor.shape[1])
        /\ xres.panic => (xsub = NoSub /\ xtensor.data = xvec)

\* C21: an element assignment through a sub-tensor of the immutable
\* index_slice panics and leaves the storage of the parent as it was; an
\* assignment of v at index o through the sub-tensor of index_slice_mut(i)
\* changes the element of the parent at o followed by i, and no other.
C21_SubTensorMutability ==
    /\ xop = "index_slice_write" => (xres.panic /\ xtensor.data = xvec)
    /\ (xop = "index_slice_mut_write" /\ ~xres.panic) =>
          /\ InRange(xtensor.shape, Append(xargs[2], xargs[1]))
          /\ xtensor.data =
                [n \in 1..Len(xvec) |->
                    IF n = 1 + IndexSum(xtensor.shape, Append(xargs[2], xargs[1]),
                                        Len(xargs[2]) + 1)
                    THEN xargs[3] ELSE xvec[n]]

\* C29: the region of an accepted sub-tensor, i * stride .. i * stride +
\* stride - 1 with stride = volume / axis_len(NDIM - 1), lies inside the
\* storage 0..LEN-1 of the parent, and every i below axis_len(NDIM - 1) is
\* accepted on a tensor of rank above 1.
C29_SliceInsideParent ==
    LET NDIM == Len(xtensor.shape) IN
    /\ (xop \in SliceNames /\ ~xres.panic) =>
          LET stride == shape_volume(xtensor.shape) \div xtensor.shape[NDIM] IN
          /\ xsub.offset = xargs[1] * stride
          /\ xargs[1] * stride + stride - 1 <= Len(xtensor.data) - 1
    /\ (xop \in SliceNames /\ NDIM > 1 /\ xargs[1] < xtensor.shape[NDIM]) => ~xres.panic

\* the index arrays in range of shape S
InRangeIndexes(S) == {o \in Indexes(Len(S)) : InRange(S, o)}

\* C30: on a tensor whose axis lengths are all at least 1, the in-range
\* indexes map one-to-one onto the offsets 0..volume-1, so a checked index
\* reads inside the LEN elements of the vector and no two indexes share an
\* element.
C30_IndexBijection ==
    /\ (HasTensor /\ \A n \in 1..Len(xtensor.shape) : xtensor.shape[n] >= 1) =>
          LET S == xtensor.shape IN
          /\ \A o \in InRangeIndexes(S) :
                /\ ~tensor_index(S, o).panic
                /\ tensor_index(S, o).idx \in 0..(shape_volume(S) - 1)
          /\ \A o1 \in InRangeIndexes(S), o2 \in InRangeIndexes(S) :
                tensor_index(S, o1).idx = tensor_index(S, o2).idx => o1 = o2
          /\ {tensor_index(S, o).idx : o \in InRangeIndexes(S)} = 0..(shape_volume(S) - 1)
    /\ (xop = "index" /\ ~xres.panic) => xres.out[1] < Len(xtensor.data)

\* t[[2, 1]] on the tensor of shape [3, 2] over 0..6 is element 5
C30_Witness ==
    /\ xop = "index" /\ xtensor.shape = <<3, 2>> /\ xargs = << <<2, 1>> >>
    /\ xres = [panic |-> FALSE, out |-> <<5, 5>>]

\* C23: the immutable deref of a matrix panics exactly when the matrix is
\* transposed, and rows, columns, indexing and matrix_mul, which are to work
\* on a transposed matrix, do not go through it: on a transposed operand
\* they do not panic on arguments they accept, and matrix_mul reaches the
\* backend.
C23_NoDerefWhenTransposed ==
    /\ MatrixDeref(ma).panic <=> ma.trans
    /\ (mop = "dims" /\ ma.trans) => ~mres.panic
    /\ (mop = "index" /\ ma.trans /\ margs[1] < rows(ma) /\ margs[2] < columns(ma)) =>
          ~mres.panic
    /\ (mop = "matrix_mul" /\ (ma.trans \/ mb.trans) /\ molen = rows(ma) * columns(mb)) =>
          margs.delegated

\* the indexes the kernel that ran touched
RanAccess == IF kop.form = "dot" THEN DotAccess(klen, kw) ELSE OpAccess(klen, kw)

\* C26: in the Native dot and elementwise kernels every chunk at offset
\* n * W with n < LEN / W covers the indexes n * W .. n * W + W - 1 with
\* n * W + W <= LEN, the remainder loop covers LEN - (LEN mod W) .. LEN - 1,
\* the two phases are disjoint and together cover 0 .. LEN - 1, so nothing
\* outside the LEN elements is touched.
C26_KernelAccessInBounds ==
    kop.form \in {"dot", "backend", "value", "into"} =>
        /\ \A n \in 0..(klen \div kw - 1) :
              /\ ChunkAccess(n, kw) = (n * kw)..(n * kw + kw - 1)
              /\ n * kw + kw <= klen
        /\ RanAccess.remainder = (klen - (klen % kw))..(klen - 1)
        /\ RanAccess.chunks \cap RanAccess.remainder = {}
        /\ RanAccess.chunks \cup RanAccess.remainder = 0..(klen - 1)

\* a dot of 5 elements with W = 4: one chunk 0..3 and the remainder 4
C26_Witness ==
    /\ kop.form = "dot" /\ klen = 5 /\ kw = 4
    /\ DotAccess(klen, kw) = [chunks |-> 0..3, remainder |-> {4}]

\* C25: moo_owned returns a vector that holds at every index the element
\* the vector itself holds there, whether the vector is Owned or Borrowed.
C25_MooOwnedCopies ==
    op = "moo_owned" => ret = View

\* C27: no write that starts at a Borrowed vector reaches its source, also
\* when the vector is wrapped: a write through WithStaticBackend's
\* as_mut_ptr or mut_moo_ref, through a sub-tensor of index_slice_mut, or
\* through mut_static_slice_unchecked leaves the source as it was and the
\* vector Owned.
C27_WrappedWritesKeepSource ==
    [][(op' \in BackendWriteOps \cup {"mut_static_slice_unchecked"} /\ ~is_owned) =>
          (source' = source /\ is_owned')]_vars

\* C28: norm() on a Borrowed vector is a read: the vector stays Borrowed
\* with the same pointer and the source keeps its elements.
C28_NormIsARead ==
    [][(op' = "norm" /\ ~is_owned) =>
          (~is_owned' /\ data' = data /\ source' = source)]_vars

(***************************************************************************)
(* The SIMD width of a build (src/src/simd_lanes.rs).  A behaviour picks   *)
(* the target features the crate is compiled with and an element type,     *)
(* and evaluates max_for_type::<T>(), the LANES of src/src/backends/rust.rs.*)
(***************************************************************************)
TargetFeatures ==
    {"avx", "avx2", "fma", "sse", "sse2", "sse3", "ssse3", "sse4.1", "sse4.2", "sse4a",
     "avx512"}

BuildFrame ==
    UNCHANGED <<cowVars, kernelVars, dispatchVars, matrixVars, transposeVars, tensorVars,
                castVars>>

\* const LANES: usize = crate::simd_lanes::max_for_type::<$t>();
MaxForType ==
    /\ bop = "target"
    /\ blanes' = max_for_type(bfeatures, btype)
    /\ bop' = "max_for_type"
    /\ UNCHANGED <<bfeatures, btype>>
    /\ BuildFrame

InitLanes ==
    /\ bfeatures \in SUBSET TargetFeatures
    /\ btype \in FloatTypes
    /\ blanes = 0
    /\ bop = "target"

NextLanes == MaxForType

InitSpecLanes ==
    InitLanes /\ IdleCow /\ IdleKernel /\ IdleDispatch /\ IdleMatrix /\ IdleTranspose
        /\ IdleTensor /\ IdleCast

SpecLanes == InitSpecLanes /\ [][NextLanes]_vars

\* C24: the SIMD width max_for_type::<T>() of a build is at least 1 for every
\* element type and every set of target features, so LEN / W and LEN mod W
\* are defined.
C24_LanesAtLeastOne == bop = "max_for_type" => blanes >= 1

(***************************************************************************)
(* Static views of dynamic vectors (src/src/dynamic_vec.rs and             *)
(* impl From<&[T]> for StaticCowVec in src/src/lib.rs).  The source is a   *)
(* slice, a Vec<T> or a Box<[T]>; a pointer addresses either the source's  *)
(* elements ("elements") or the Box value itself ("box"), whose bytes are  *)
(* a pointer and a length and not elements of T.                           *)
(***************************************************************************)
DynKinds == {"[T]", "Vec<T>", "Box<[T]>"}

DynCastNames == {"moo", "moo_ref", "mut_moo_ref", "pretend_static"}

CastPanic == [panic |-> TRUE, out |-> <<>>]

\* dyn_cast_panic!(a, b)
dyn_cast_panic(a, b) == a # b

\* DynamicVec::as_ptr of [T], Vec<T> (&self[0] panics when empty) and Box<[T]>
\* (self as *const Box<[T]> as *const T)
dyn_as_ptr(kind, elems) ==
    IF kind = "Vec<T>"
    THEN IF Len(elems) = 0 THEN [panic |-> TRUE, target |-> "none"]
         ELSE [panic |-> FALSE, target |-> "elements"]
    ELSE IF kind = "Box<[T]>" THEN [panic |-> FALSE, target |-> "box"]
    ELSE [panic |-> FALSE, target |-> "elements"]

\* DynamicVec::as_mut_ptr: transmute(self.as_ptr())
dyn_as_mut_ptr(kind, elems) == dyn_as_ptr(kind, elems)

\* the values a [T; n] at the target can have: the source's elements, or
\* whatever the bytes at the Box are
StaticAt(target, elems, n) ==
    IF target = "elements" THEN {SubSeq(elems, 1, n)}
    ELSE {[i \in 1..n |-> g] : g \in Garbage}

\* DynamicVec::moo / moo_ref / mut_moo_ref::<n>: the length check, then the
\* view at as_ptr() (as_mut_ptr() for mut_moo_ref)
dyn_moo(name, kind, elems, n) ==
    IF dyn_cast_panic(Len(elems), n) THEN {CastPanic}
    ELSE LET p == IF name = "mut_moo_ref" THEN dyn_as_mut_ptr(kind, elems)
                  ELSE dyn_as_ptr(kind, elems)
         IN  IF p.panic THEN {CastPanic}
             ELSE {[panic |-> FALSE, out |-> e] : e \in StaticAt(p.target, elems, n)}

\* DynamicVec::pretend_static::<n>: the length check, then the boxed source;
\* the elements of the PretendStaticVec are those at self.0.as_ptr()
pretend_static(kind, elems, n) ==
    IF dyn_cast_panic(Len(elems), n) THEN {CastPanic}
    ELSE LET p == dyn_as_ptr(kind, elems)
         IN  IF p.panic THEN {[panic |-> FALSE, out |-> <<>>]}
             ELSE {[panic |-> FALSE, out |-> e] : e \in StaticAt(p.target, elems, n)}

\* StaticCowVec::<T, n>::from(&[T])
from_slice(elems, n) ==
    IF Len(elems) # n THEN CastPanic
    ELSE [panic |-> FALSE, out |-> SubSeq(elems, 1, n)]

CastFrame ==
    UNCHANGED <<cowVars, kernelVars, dispatchVars, matrixVars, transposeVars, tensorVars,
                buildVars>>

\* source.moo::<n>(), .moo_ref::<n>(), .mut_moo_ref::<n>()
DynMoo(name, n) ==
    /\ cop = "source"
    /\ \E r \in dyn_moo(name, ckind, csrc, n) : cres' = r
    /\ cop' = name
    /\ cargs' = <<n>>
    /\ UNCHANGED <<csrc, ckind>>
    /\ CastFrame

\* source.pretend_static::<n>(): Self: Clone and self by value, so not a slice
PretendStatic(n) ==
    /\ cop = "source"
    /\ ckind # "[T]"
    /\ \E r \in pretend_static(ckind, csrc, n) : cres' = r
    /\ cop' = "pretend_static"
    /\ cargs' = <<n>>
    /\ UNCHANGED <<csrc, ckind>>
    /\ CastFrame

\* StaticCowVec::<T, n>::from(source) for a slice
CowFromSlice(n) ==
    /\ cop = "source"
    /\ ckind = "[T]"
    /\ cres' = from_slice(csrc, n)
    /\ cop' = "from"
    /\ cargs' = <<n>>
    /\ UNCHANGED <<csrc, ckind>>
    /\ CastFrame

InitCast ==
    /\ ckind \in DynKinds
    /\ \E n \in 0..MaxCLen : csrc = Ramp(n)
    /\ cop = "source"
    /\ cargs = <<>>
    /\ cres = [panic |-> FALSE, out |-> <<>>]

NextCast ==
    \/ \E name \in DynCastNames \ {"pretend_static"}, n \in 0..MaxCLen : DynMoo(name, n)
    \/ \E n \in 0..MaxCLen : PretendStatic(n)
    \/ \E n \in 0..MaxCLen : CowFromSlice(n)

InitSpecCast ==
    InitCast /\ IdleCow /\ IdleKernel /\ IdleDispatch /\ IdleMatrix /\ IdleTranspose
        /\ IdleTensor /\ IdleBuild

SpecCast == InitSpecCast /\ [][NextCast]_vars

\* C22: a static view of LEN elements taken from a source (from(&[T]), moo,
\* moo_ref, mut_moo_ref, pretend_static) panics when the source's length
\* is not LEN, and otherwise succeeds and has the source's elements in order.
C22_CastChecksLength ==
    cop \in DynCastNames \cup {"from"} =>
        IF Len(csrc) # cargs[1] THEN cres.panic
        ELSE ~cres.panic /\ cres.out = csrc

\* the half of C22 about sources of the wrong length
C22_WrongLengthPanics ==
    cop \in DynCastNames \cup {"from"} /\ Len(csrc) # cargs[1] => cres.panic
====
